---- MODULE Spec2Model ----
(***************************************************************************)
(* Model of the JWT authentication service: the in-memory TokenStore      *)
(* (token.store.ts), the AuthService built on it (auth.service.ts), the   *)
(* AuthController that maps service results to HTTP replies               *)
(* (auth.controller.ts) and the authenticate preHandler (jwt.plugin.ts).  *)
(*                                                                         *)
(* Time is Date.now() in milliseconds; every call of Date.now(), and of   *)
(* jwt.sign and jwt.verify, reads the clock anew, and the clock may have   *)
(* advanced since the reading before.  A signed JWT is a deterministic    *)
(* function of its payload (sub, iat, exp), the fixed header and the      *)
(* fixed secret, so a token is modelled by its payload.                   *)
(***************************************************************************)
EXTENDS Integers, Sequences, FiniteSets, Bags, TLC

VARIABLES
    tokens,     \* TokenStore.tokens: the Map, as its entries in insertion order
    now,        \* Date.now(), milliseconds
    ticks,      \* number of clock advances so far (bounds the exploration)
    issued,     \* the tokens that successful logins have sent to the client
    revoked,    \* login-issued refresh tokens for which AuthService.logout has completed
    last,       \* the last call: its inputs, the store before it, the clock
                \* readings it took, its outcome
    pending     \* the requests in flight, each at one of its await points; in
                \* AtomSpec the method calls that wait for or hold the thread

vars == <<tokens, now, ticks, issued, revoked, last, pending>>

-----------------------------------------------------------------------------
(* Bounds and program constants *)

MaxTicks == 2
MaxSessions == 2
MaxStoreTicks == 1
MaxNow == 1300000000
MaxInflight == 2
MaxConcTicks == 1
MaxLiveInflight == 1
MaxAffixLen == 2
MaxCalls == 3
MaxCallTicks == 1

MsPerSec == 1000
\* the access token's lifetime, had it been the one hour of the API guide
AccessTtlSec_oneHour == 60 * 60
AccessTtlSec == 15 * 60
RefreshTtlSec == 7 * 24 * 60 * 60
AccessTtlMs == AccessTtlSec * MsPerSec
RefreshTtlMs == RefreshTtlSec * MsPerSec

StartTimes == {0}
\* the start times of the runs that follow the clock inside a call: on a full
\* second and in the last millisecond of one
ClockStartTimes == {0, 999}
\* the milliseconds by which the clock may advance between two readings of
\* one synchronous call
Drifts == {0, 1}
Deltas == {1, AccessTtlMs, RefreshTtlMs}
StoreDeltas == {1}
ConcDeltas == {RefreshTtlMs + 1}

-----------------------------------------------------------------------------
(* JavaScript values *)

Null == "<null>"
Undefined == "<undefined>"

\* A string that is the compact serialisation of a JWT signed with the
\* service's secret: determined by its payload.
Jwt(sub, iat, exp) == [kind |-> "jwt", sub |-> sub, iat |-> iat, exp |-> exp]
\* Any other string (its text in sub).
Str(x) == [kind |-> "str", sub |-> x, iat |-> 0, exp |-> 0]
\* The value undefined where a token string is expected.
UndefinedTok == [kind |-> "undefined", sub |-> "", iat |-> 0, exp |-> 0]

\* the clock readings of a call during which the clock stands at t
At(t) == <<t, t, t>>

\* !x for a value used as a token string
FalsyTok(x) == x.kind = "undefined" \/ (x.kind = "str" /\ x.sub = "")
\* !x for a string-or-null value
Falsy(x) == x = Null \/ x = Undefined \/ x = ""

-----------------------------------------------------------------------------
(* Map<string, StoredToken> in insertion order *)

MapHas(s, k) == \E i \in 1..Len(s) : s[i].token = k
MapGet(s, k) == s[CHOOSE i \in 1..Len(s) : s[i].token = k]
MapSet(s, k, v) ==
    IF MapHas(s, k)
    THEN [i \in 1..Len(s) |-> IF s[i].token = k THEN v ELSE s[i]]
    ELSE Append(s, v)
MapDelete(s, k) == SelectSeq(s, LAMBDA e : e.token # k)

-----------------------------------------------------------------------------
(* TokenStore *)

\* saveToken, had it left a key that is already present as it was
saveToken_keepsExisting(s, token, username, ttlSeconds, t) ==
    IF MapHas(s, token)
    THEN s
    ELSE Append(s, [token |-> token, username |-> username,
                    issuedAt |-> t, expiresAt |-> t + ttlSeconds * MsPerSec])

\* saveToken, had it dropped the expired records before storing
saveToken_sweepsFirst(s, token, username, ttlSeconds, t) ==
    MapSet(SelectSeq(s, LAMBDA e : ~(t > e.expiresAt)), token,
           [token |-> token, username |-> username,
            issuedAt |-> t, expiresAt |-> t + ttlSeconds * MsPerSec])

\* saveToken, had it kept the issue time of a record it overwrites
saveToken_keepsIssuedAt(s, token, username, ttlSeconds, t) ==
    MapSet(s, token,
           [token |-> token, username |-> username,
            issuedAt |-> IF MapHas(s, token) THEN MapGet(s, token).issuedAt ELSE t,
            expiresAt |-> t + ttlSeconds * MsPerSec])

saveToken(s, token, username, ttlSeconds, t) ==
    MapSet(s, token,
           [token |-> token, username |-> username,
            issuedAt |-> t, expiresAt |-> t + ttlSeconds * MsPerSec])

\* verifyToken, had it reported an expired record without deleting it
verifyToken_keepsExpired(s, token, t) ==
    IF ~MapHas(s, token)
    THEN [ret |-> Null, store |-> s]
    ELSE IF t > MapGet(s, token).expiresAt
         THEN [ret |-> Null, store |-> s]
         ELSE [ret |-> MapGet(s, token).username, store |-> s]

\* verifyToken, had it counted a record as expired at the instant expiresAt
verifyToken_expiresAtInstant(s, token, t) ==
    IF ~MapHas(s, token)
    THEN [ret |-> Null, store |-> s]
    ELSE IF t >= MapGet(s, token).expiresAt
         THEN [ret |-> Null, store |-> MapDelete(s, token)]
         ELSE [ret |-> MapGet(s, token).username, store |-> s]

\* verifyToken, had a successful check moved the record's expiry on
verifyToken_slidesExpiry(s, token, t) ==
    IF ~MapHas(s, token)
    THEN [ret |-> Null, store |-> s]
    ELSE IF t > MapGet(s, token).expiresAt
         THEN [ret |-> Null, store |-> MapDelete(s, token)]
         ELSE [ret |-> MapGet(s, token).username,
               store |-> MapSet(s, token,
                                [MapGet(s, token) EXCEPT
                                    !.expiresAt = t + 7 * 24 * 60 * 60 * MsPerSec])]

verifyToken(s, token, t) ==
    IF ~MapHas(s, token)
    THEN [ret |-> Null, store |-> s]
    ELSE IF t > MapGet(s, token).expiresAt
         THEN [ret |-> Null, store |-> MapDelete(s, token)]
         ELSE [ret |-> MapGet(s, token).username, store |-> s]

\* revokeToken, had it dropped the oldest record when the token has none
revokeToken_dropsOldestWhenAbsent(s, token) ==
    IF MapHas(s, token) THEN MapDelete(s, token)
    ELSE IF Len(s) > 0 THEN Tail(s) ELSE s

revokeToken(s, token) == MapDelete(s, token)

\* the loop of revokeAllUserTokens, had a deletion made it step over the
\* entry that follows the deleted one
RECURSIVE revokeAllLoop_skipsAfterDelete(_, _, _)
revokeAllLoop_skipsAfterDelete(s, i, username) ==
    IF i > Len(s) THEN s
    ELSE IF s[i].username = username
         THEN revokeAllLoop_skipsAfterDelete(MapDelete(s, s[i].token), i + 1, username)
         ELSE revokeAllLoop_skipsAfterDelete(s, i + 1, username)

\* for (const [token, stored] of this.tokens.entries()): position i of the
\* live entry list; deleting the current entry moves the next one to i.
RECURSIVE revokeAllLoop(_, _, _)
revokeAllLoop(s, i, username) ==
    IF i > Len(s) THEN s
    ELSE IF s[i].username = username
         THEN revokeAllLoop(MapDelete(s, s[i].token), i, username)
         ELSE revokeAllLoop(s, i + 1, username)

revokeAllUserTokens(s, username) == revokeAllLoop(s, 1, username)

RECURSIVE cleanupLoop(_, _, _, _)
cleanupLoop(s, i, t, cleaned) ==
    IF i > Len(s) THEN [ret |-> cleaned, store |-> s]
    ELSE IF t > s[i].expiresAt
         THEN cleanupLoop(MapDelete(s, s[i].token), i, t, cleaned + 1)
         ELSE cleanupLoop(s, i + 1, t, cleaned)

\* cleanupExpired, had it swept a record at the instant of its expiresAt
cleanupExpired_sweepsAtExpiry(s, t) ==
    [ret |-> Cardinality({i \in 1..Len(s) : t >= s[i].expiresAt}),
     store |-> SelectSeq(s, LAMBDA e : ~(t >= e.expiresAt))]

cleanupExpired(s, t) == cleanupLoop(s, 1, t, 0)

-----------------------------------------------------------------------------
(* app.jwt (@fastify/jwt): HS256 signing and verification *)

\* app.jwt.sign({ sub }, { expiresIn }): iat = floor(Date.now() / 1000),
\* exp = iat + expiresIn in seconds.
jwtSign(sub, expiresInSec, t) ==
    Jwt(sub, t \div MsPerSec, (t \div MsPerSec) + expiresInSec)

\* app.jwt.verify(token): throws unless the string is a JWT carrying this
\* service's signature whose exp has not passed (the token is still accepted
\* at the instant exp * 1000 itself).
jwtVerify(token, t) ==
    IF token.kind # "jwt"
    THEN [ok |-> FALSE, err |-> "FST_JWT_AUTHORIZATION_TOKEN_INVALID", sub |-> Undefined]
    ELSE IF t > token.exp * MsPerSec
         THEN [ok |-> FALSE, err |-> "FST_JWT_AUTHORIZATION_TOKEN_EXPIRED", sub |-> Undefined]
         ELSE [ok |-> TRUE, err |-> "none", sub |-> token.sub]

-----------------------------------------------------------------------------
(* AuthService *)

ServiceResult(err, accessToken, refreshToken, tokenType, store) ==
    [err |-> err, accessToken |-> accessToken, refreshToken |-> refreshToken,
     tokenType |-> tokenType, store |-> store]

\* login, had it stored the access token in place of the refresh token
login_savesAccessToken(s, payload, t) ==
    IF ~payload.present
    THEN ServiceResult("TypeError", UndefinedTok, UndefinedTok, Undefined, s)
    ELSE IF payload.username # "admin" \/ payload.password # "Admin@123"
         THEN ServiceResult("Invalid credentials", UndefinedTok, UndefinedTok, Undefined, s)
         ELSE LET accessToken == jwtSign(payload.username, AccessTtlSec, t[1])
                  refreshToken == jwtSign(payload.username, RefreshTtlSec, t[2])
              IN ServiceResult("none", accessToken, refreshToken, "Bearer",
                               saveToken(s, accessToken, payload.username,
                                         7 * 24 * 60 * 60, t[3]))

\* login, had it stored the refresh token before checking the password
login_savesBeforeCheck(s, payload, t) ==
    IF ~payload.present
    THEN ServiceResult("TypeError", UndefinedTok, UndefinedTok, Undefined, s)
    ELSE LET accessToken == jwtSign(payload.username, AccessTtlSec, t[1])
             refreshToken == jwtSign(payload.username, RefreshTtlSec, t[2])
             saved == saveToken(s, refreshToken, payload.username, 7 * 24 * 60 * 60, t[3])
         IN IF payload.username # "admin" \/ payload.password # "Admin@123"
            THEN ServiceResult("Invalid credentials", UndefinedTok, UndefinedTok,
                               Undefined, saved)
            ELSE ServiceResult("none", accessToken, refreshToken, "Bearer", saved)

\* login, had it stored the record with the access token's lifetime
login_savesShortRecord(s, payload, t) ==
    IF ~payload.present
    THEN ServiceResult("TypeError", UndefinedTok, UndefinedTok, Undefined, s)
    ELSE IF payload.username # "admin" \/ payload.password # "Admin@123"
         THEN ServiceResult("Invalid credentials", UndefinedTok, UndefinedTok, Undefined, s)
         ELSE LET accessToken == jwtSign(payload.username, AccessTtlSec, t[1])
                  refreshToken == jwtSign(payload.username, RefreshTtlSec, t[2])
              IN ServiceResult("none", accessToken, refreshToken, "Bearer",
                               saveToken(s, refreshToken, payload.username, 15 * 60, t[3]))

\* login, had it reported an unknown user apart from a wrong password
login_tellsUnknownUser(s, payload, t) ==
    IF ~payload.present
    THEN ServiceResult("TypeError", UndefinedTok, UndefinedTok, Undefined, s)
    ELSE IF payload.username # "admin"
         THEN ServiceResult("Unknown user", UndefinedTok, UndefinedTok, Undefined, s)
         ELSE IF payload.password # "Admin@123"
              THEN ServiceResult("Invalid credentials", UndefinedTok, UndefinedTok,
                                 Undefined, s)
              ELSE LET accessToken == jwtSign(payload.username, AccessTtlSec, t[1])
                       refreshToken == jwtSign(payload.username, RefreshTtlSec, t[2])
                   IN ServiceResult("none", accessToken, refreshToken, "Bearer",
                                    saveToken(s, refreshToken, payload.username,
                                              7 * 24 * 60 * 60, t[3]))

\* payload is request.body: present = FALSE when the request has no body
\* (payload.username then throws a TypeError).
\* login, had it recorded the refresh token under another owner than the
\* subject it signs into the token
login_recordsOtherOwner(s, payload, t) ==
    IF ~payload.present
    THEN ServiceResult("TypeError", UndefinedTok, UndefinedTok, Undefined, s)
    ELSE IF payload.username # "admin" \/ payload.password # "Admin@123"
         THEN ServiceResult("Invalid credentials", UndefinedTok, UndefinedTok, Undefined, s)
         ELSE LET accessToken == jwtSign(payload.username, AccessTtlSec, t[1])
                  refreshToken == jwtSign(payload.username, RefreshTtlSec, t[2])
              IN ServiceResult("none", accessToken, refreshToken, "Bearer",
                               saveToken(s, refreshToken, "service",
                                         7 * 24 * 60 * 60, t[3]))

\* AuthService.login; t[1] and t[2] are the clock readings of the two
\* app.jwt.sign calls, t[3] is that of saveToken
login(s, payload, t) ==
    IF ~payload.present
    THEN ServiceResult("TypeError", UndefinedTok, UndefinedTok, Undefined, s)
    ELSE IF payload.username # "admin" \/ payload.password # "Admin@123"
         THEN ServiceResult("Invalid credentials", UndefinedTok, UndefinedTok, Undefined, s)
         ELSE LET accessToken == jwtSign(payload.username, AccessTtlSec, t[1])
                  refreshToken == jwtSign(payload.username, RefreshTtlSec, t[2])
              IN ServiceResult("none", accessToken, refreshToken, "Bearer",
                               saveToken(s, refreshToken, payload.username,
                                         7 * 24 * 60 * 60, t[3]))

\* refresh, had it skipped the token store and trusted the signature alone
refresh_skipsStore(s, refreshToken, t) ==
    LET decoded == jwtVerify(refreshToken, t[2])
    IN IF ~decoded.ok
       THEN ServiceResult(decoded.err, UndefinedTok, UndefinedTok, Undefined, s)
       ELSE ServiceResult("none", jwtSign(decoded.sub, AccessTtlSec, t[3]),
                          refreshToken, "Bearer", s)

\* refresh, had it renewed the stored record on every use
refresh_renewsRecord(s, refreshToken, t) ==
    LET v == verifyToken(s, refreshToken, t[1])
        decoded == jwtVerify(refreshToken, t[2])
    IN IF Falsy(v.ret)
       THEN ServiceResult("Refresh token is invalid or revoked",
                          UndefinedTok, UndefinedTok, Undefined, v.store)
       ELSE IF ~decoded.ok
            THEN ServiceResult(decoded.err, UndefinedTok, UndefinedTok, Undefined, v.store)
            ELSE ServiceResult("none", jwtSign(decoded.sub, AccessTtlSec, t[3]),
                               refreshToken, "Bearer",
                               saveToken(v.store, refreshToken, decoded.sub,
                                         7 * 24 * 60 * 60, t[3]))

\* refresh, had it revoked a token whose JWT does not verify
refresh_revokesUnverifiable(s, refreshToken, t) ==
    LET v == verifyToken(s, refreshToken, t[1])
        decoded == jwtVerify(refreshToken, t[2])
    IN IF Falsy(v.ret)
       THEN ServiceResult("Refresh token is invalid or revoked",
                          UndefinedTok, UndefinedTok, Undefined, v.store)
       ELSE IF ~decoded.ok
            THEN ServiceResult(decoded.err, UndefinedTok, UndefinedTok, Undefined,
                               revokeToken(v.store, refreshToken))
            ELSE ServiceResult("none", jwtSign(decoded.sub, AccessTtlSec, t[3]),
                               refreshToken, "Bearer", v.store)

\* refresh, had it recorded the access token it issues in the store
refresh_recordsAccessToken(s, refreshToken, t) ==
    LET v == verifyToken(s, refreshToken, t[1])
        decoded == jwtVerify(refreshToken, t[2])
    IN IF Falsy(v.ret)
       THEN ServiceResult("Refresh token is invalid or revoked",
                          UndefinedTok, UndefinedTok, Undefined, v.store)
       ELSE IF ~decoded.ok
            THEN ServiceResult(decoded.err, UndefinedTok, UndefinedTok, Undefined, v.store)
            ELSE ServiceResult("none", jwtSign(decoded.sub, AccessTtlSec, t[3]),
                               refreshToken, "Bearer",
                               saveToken(v.store, jwtSign(decoded.sub, AccessTtlSec, t[3]),
                                         decoded.sub, 15 * 60, t[3]))

\* AuthService.refresh; t[1] is the clock reading of verifyToken, t[2] that
\* of app.jwt.verify, t[3] that of app.jwt.sign
refresh(s, refreshToken, t) ==
    LET v == verifyToken(s, refreshToken, t[1])
        decoded == jwtVerify(refreshToken, t[2])
    IN IF Falsy(v.ret)
       THEN ServiceResult("Refresh token is invalid or revoked",
                          UndefinedTok, UndefinedTok, Undefined, v.store)
       ELSE IF ~decoded.ok
            THEN ServiceResult(decoded.err, UndefinedTok, UndefinedTok, Undefined, v.store)
            ELSE ServiceResult("none", jwtSign(decoded.sub, AccessTtlSec, t[3]),
                               refreshToken, "Bearer", v.store)

\* logout, had it failed for a token that has no record
logout_failsWhenAbsent(s, refreshToken) ==
    IF MapHas(s, refreshToken)
    THEN ServiceResult("none", UndefinedTok, UndefinedTok, Undefined,
                       revokeToken(s, refreshToken))
    ELSE ServiceResult("Token not found", UndefinedTok, UndefinedTok, Undefined, s)

\* logout, had it ended every session of the token's owner
logout_endsAllSessions(s, refreshToken) ==
    ServiceResult("none", UndefinedTok, UndefinedTok, Undefined,
                  IF MapHas(s, refreshToken)
                  THEN revokeAllUserTokens(s, MapGet(s, refreshToken).username)
                  ELSE s)

logout(s, refreshToken) ==
    ServiceResult("none", UndefinedTok, UndefinedTok, Undefined,
                  revokeToken(s, refreshToken))

-----------------------------------------------------------------------------
(* authenticate preHandler and AuthController: the HTTP reply *)

Reply(status, message, svc, handler) ==
    [status |-> status, message |-> message, err |-> svc.err,
     accessToken |-> svc.accessToken, refreshToken |-> svc.refreshToken,
     tokenType |-> svc.tokenType, store |-> svc.store, handler |-> handler]

\* the service was not called
NotCalled(s) == ServiceResult("not-called", UndefinedTok, UndefinedTok, Undefined, s)

\* request.jwtVerify(): the Bearer token of the Authorization header
authenticate(auth, t) == jwtVerify(auth, t).ok

ctlLogin(s, body, t) ==
    LET r == login(s, body, t)
    IN IF r.err = "none"
       THEN Reply(200, "", r, TRUE)
       ELSE Reply(401, "Invalid credentials", r, TRUE)

\* the refresh handler, had it passed the service's error message on
ctlRefresh_tellsCause(s, body, t) ==
    IF ~body.present
    THEN Reply(401, "Invalid refresh token",
               ServiceResult("TypeError", UndefinedTok, UndefinedTok, Undefined, s), TRUE)
    ELSE IF FalsyTok(body.refreshToken)
         THEN Reply(400, "Refresh token is required", NotCalled(s), TRUE)
         ELSE LET r == refresh(s, body.refreshToken, t)
              IN IF r.err = "none"
                 THEN Reply(200, "", r, TRUE)
                 ELSE Reply(401, r.err, r, TRUE)

\* body.present = FALSE: destructuring request.body throws inside the try
ctlRefresh(s, body, t) ==
    IF ~body.present
    THEN Reply(401, "Invalid refresh token",
               ServiceResult("TypeError", UndefinedTok, UndefinedTok, Undefined, s), TRUE)
    ELSE IF FalsyTok(body.refreshToken)
         THEN Reply(400, "Refresh token is required", NotCalled(s), TRUE)
         ELSE LET r == refresh(s, body.refreshToken, t)
              IN IF r.err = "none"
                 THEN Reply(200, "", r, TRUE)
                 ELSE Reply(401, "Invalid refresh token", r, TRUE)

ctlLogout(s, body) ==
    IF ~body.present
    THEN Reply(400, "Logout failed",
               ServiceResult("TypeError", UndefinedTok, UndefinedTok, Undefined, s), TRUE)
    ELSE IF FalsyTok(body.refreshToken)
         THEN Reply(400, "Refresh token is required", NotCalled(s), TRUE)
         ELSE LET r == logout(s, body.refreshToken)
              IN IF r.err = "none"
                 THEN Reply(200, "Logged out successfully", r, TRUE)
                 ELSE Reply(400, "Logout failed", r, TRUE)

ctlMe(s) == Reply(200, "", NotCalled(s), TRUE)

Unauthorized(s) ==
    Reply(401, "Unauthorized - Invalid or missing JWT token", NotCalled(s), FALSE)

\* the logout route, had it been registered without the preHandler
routeLogout_withoutPreHandler(s, auth, body, t) == ctlLogout(s, body)

\* the me route, had it asked the store for a live session of the user
routeMe_requiresSession(s, auth, t) ==
    IF /\ authenticate(auth, t)
       /\ \E i \in 1..Len(s) : s[i].username = auth.sub
    THEN ctlMe(s)
    ELSE Unauthorized(s)

\* routes with preHandler: [app.authenticate]
routeLogout(s, auth, body, t) ==
    IF authenticate(auth, t) THEN ctlLogout(s, body) ELSE Unauthorized(s)

routeMe(s, auth, t) ==
    IF authenticate(auth, t) THEN ctlMe(s) ELSE Unauthorized(s)

-----------------------------------------------------------------------------
(* The handlers as the event loop runs them: each async function runs      *)
(* without interruption up to an await, and its continuation runs later,   *)
(* after any number of steps of other requests.  The service methods       *)
(* contain no await, so a call of one runs to its end inside the step of   *)
(* the handler that calls it.                                              *)

\* a handler's outcome at its first await: replied = TRUE when it has sent
\* its reply r already, else r.err .. r.store hold the settled promise of
\* the service call it awaits
Chunk(replied, r) == [replied |-> replied, r |-> r]

\* the handler, had login handed its tokens on without the save
handlerChunk_disclosesBeforeSave(op, s, body, t) ==
    CASE op = "login" ->
            Chunk(FALSE, Reply(0, "", [login(s, body, t) EXCEPT !.store = s], TRUE))
      [] op = "refresh" ->
            IF ~body.present
            THEN Chunk(TRUE, Reply(401, "Invalid refresh token",
                           ServiceResult("TypeError", UndefinedTok, UndefinedTok,
                                         Undefined, s), TRUE))
            ELSE IF FalsyTok(body.refreshToken)
                 THEN Chunk(TRUE, Reply(400, "Refresh token is required", NotCalled(s), TRUE))
                 ELSE Chunk(FALSE, Reply(0, "", refresh(s, body.refreshToken, t), TRUE))
      [] op = "logout" ->
            IF ~body.present
            THEN Chunk(TRUE, Reply(400, "Logout failed",
                           ServiceResult("TypeError", UndefinedTok, UndefinedTok,
                                         Undefined, s), TRUE))
            ELSE IF FalsyTok(body.refreshToken)
                 THEN Chunk(TRUE, Reply(400, "Refresh token is required", NotCalled(s), TRUE))
                 ELSE Chunk(FALSE, Reply(0, "", logout(s, body.refreshToken), TRUE))
      [] OTHER -> Chunk(TRUE, ctlMe(s))

\* the handler from its start to the await of the service call
handlerChunk(op, s, body, t) ==
    CASE op = "login" -> Chunk(FALSE, Reply(0, "", login(s, body, t), TRUE))
      [] op = "refresh" ->
            IF ~body.present
            THEN Chunk(TRUE, Reply(401, "Invalid refresh token",
                           ServiceResult("TypeError", UndefinedTok, UndefinedTok,
                                         Undefined, s), TRUE))
            ELSE IF FalsyTok(body.refreshToken)
                 THEN Chunk(TRUE, Reply(400, "Refresh token is required", NotCalled(s), TRUE))
                 ELSE Chunk(FALSE, Reply(0, "", refresh(s, body.refreshToken, t), TRUE))
      [] op = "logout" ->
            IF ~body.present
            THEN Chunk(TRUE, Reply(400, "Logout failed",
                           ServiceResult("TypeError", UndefinedTok, UndefinedTok,
                                         Undefined, s), TRUE))
            ELSE IF FalsyTok(body.refreshToken)
                 THEN Chunk(TRUE, Reply(400, "Refresh token is required", NotCalled(s), TRUE))
                 ELSE Chunk(FALSE, Reply(0, "", logout(s, body.refreshToken), TRUE))
      [] OTHER -> Chunk(TRUE, ctlMe(s))

\* the continuation of the handler after the awaited service call settled
\* with svc: reply.send(...) or the catch block
afterAwait(op, svc) ==
    CASE op = "login" ->
            IF svc.err = "none" THEN Reply(200, "", svc, TRUE)
            ELSE Reply(401, "Invalid credentials", svc, TRUE)
      [] op = "refresh" ->
            IF svc.err = "none" THEN Reply(200, "", svc, TRUE)
            ELSE Reply(401, "Invalid refresh token", svc, TRUE)
      [] OTHER ->
            IF svc.err = "none" THEN Reply(200, "Logged out successfully", svc, TRUE)
            ELSE Reply(400, "Logout failed", svc, TRUE)

-----------------------------------------------------------------------------
(* Inputs *)

NoBody == [present |-> FALSE, username |-> Undefined, password |-> Undefined,
           refreshToken |-> UndefinedTok]
Credentials ==
    {<<"admin", "Admin@123">>, <<"admin", "wrong">>, <<"root", "Admin@123">>,
     <<"root", "wrong">>, <<"", "">>, <<"admin", Undefined>>, <<Undefined, "Admin@123">>,
     <<"Admin", "Admin@123">>}
LoginBodies ==
    {NoBody} \cup
    {[present |-> TRUE, username |-> c[1], password |-> c[2],
      refreshToken |-> UndefinedTok] : c \in Credentials}

\* the request body { refreshToken: k }
TokenBody(k) ==
    [present |-> TRUE, username |-> Undefined, password |-> Undefined, refreshToken |-> k]

\* the refresh tokens and the access tokens among the tokens handed out
IssuedRefresh == {k \in issued : k.exp - k.iat = RefreshTtlSec}
IssuedAccess == {k \in issued : k.exp - k.iat = AccessTtlSec}

\* what a client can send as its refresh token: one a login gave it, a
\* string that is no token, the empty string, or nothing
ClientTokens == IssuedRefresh \cup {Str("nonexistent-token"), Str(""), UndefinedTok}
TokenBodies ==
    {NoBody} \cup
    {[present |-> TRUE, username |-> Undefined, password |-> Undefined, refreshToken |-> k] :
        k \in ClientTokens}
\* the Bearer token of the Authorization header: an access token a login
\* gave, a string that is no token, or no header
AuthHeaders == IssuedAccess \cup {Str("nonexistent-token"), UndefinedTok}

StoreTokens == {Str("t1"), Str("t2"), Str("t3")}
Owners == {"admin", "bob"}
Ttls == {0, 1}

\* the requests of the concurrent runs
ConcLoginBodies == {b \in LoginBodies : b.present /\ b.username = "admin"
                                          /\ b.password = "Admin@123"}
ConcTokenBodies ==
    {[present |-> TRUE, username |-> Undefined, password |-> Undefined, refreshToken |-> k] :
        k \in IssuedRefresh \cup {Str("")}}
\* a client logs out with the two tokens one login gave it
ConcLogouts ==
    {x \in IssuedAccess \X {TokenBody(k) : k \in IssuedRefresh} :
        x[1].sub = x[2].refreshToken.sub /\ x[1].iat = x[2].refreshToken.iat}

-----------------------------------------------------------------------------
(* State machine: every step is the part of one request's processing that  *)
(* runs without interruption, from a call or a continuation up to the next *)
(* await.  Between two steps of a request the clock may advance and steps  *)
(* of other requests may run.                                              *)

NoLast ==
    [op |-> "init", auth |-> UndefinedTok, present |-> FALSE, rt |-> UndefinedTok,
     username |-> Undefined, ttl |-> 0,
     status |-> 0, message |-> "", err |-> "not-called",
     accessToken |-> UndefinedTok, refreshToken |-> UndefinedTok,
     tokenType |-> Undefined, handler |-> FALSE,
     pre |-> <<>>, ret |-> Null, count |-> 0, at |-> At(0), vt |-> 0]


\* the record of a request: its body, the store before its handler ran, the
\* clock readings t of the service call, and the reply r that it is sent
Http(op, body, r, t) ==
    [NoLast EXCEPT !.op = op, !.present = body.present, !.rt = body.refreshToken,
                   !.username = body.username,
                   !.status = r.status, !.message = r.message, !.err = r.err,
                   !.accessToken = r.accessToken, !.refreshToken = r.refreshToken,
                   !.tokenType = r.tokenType, !.handler = r.handler, !.pre = tokens,
                   !.at = t]

\* the service has started at one of times: the store is empty and no
\* request has arrived
InitAt(times) ==
    /\ tokens = <<>>
    /\ now \in times
    /\ ticks = 0
    /\ issued = {}
    /\ revoked = {}
    /\ last = NoLast
    /\ pending = EmptyBag

Init == InitAt(StartTimes)

\* how a specification explores the requests: the number of requests in
\* flight, the number of clock advances, whether last is kept, and by how
\* much the clock may advance between two readings inside one call
Mode(cap, maxTicks, rec, drifts) ==
    [cap |-> cap, maxTicks |-> maxTicks, rec |-> rec, drifts |-> drifts]
Record(m, r) == IF m.rec THEN r ELSE last

\* a request in flight: stage is where it waits ("verifying": authenticate
\* awaits request.jwtVerify(), called at time vt; "handler": the hook has
\* returned; "awaiting": the handler awaits the service call it made on the
\* store pre with the clock readings at, settled with svc)
Request(op, auth, body) ==
    [op |-> op, auth |-> auth, body |-> body, stage |-> "handler",
     vt |-> 0, pre |-> <<>>, at |-> At(0), svc |-> NotCalled(<<>>)]

\* pending without request p, and with q in its place
Without(p) == pending (-) SetToBag({p})
Replaced(p, q) == Without(p) (+) SetToBag({q})

\* the refresh tokens of the logins whose handler awaits, not yet sent
AwaitedRefresh ==
    {p.svc.refreshToken : p \in {q \in BagToSet(pending) :
        q.op = "login" /\ q.stage = "awaiting" /\ q.svc.err = "none"}}

\* the number of clock readings that the handler's first part takes: one in
\* verifyToken, one in jwt.verify, one in each jwt.sign, one in saveToken
ClockReads(op, c) ==
    CASE c.replied -> 0
      [] op = "login" -> IF c.r.err = "none" THEN 3 ELSE 0
      [] op = "refresh" ->
            IF c.r.err = "none" THEN 3
            ELSE IF c.r.err = "Refresh token is invalid or revoked" THEN 1 ELSE 2
      [] OTHER -> 0

\* the handler of request p is called and runs up to its await (service call
\* included) or to its end; the clock reads now, now + d1, now + d1 + d2
CallHandler(m, p, rest, d1, d2) ==
    LET t == <<now, now + d1, now + d1 + d2>>
        c == handlerChunk(p.op, tokens, p.body, t)
        r == IF c.replied THEN c.r ELSE afterAwait(p.op, c.r)
    IN /\ ClockReads(p.op, c) < 3 => d2 = 0
       /\ ClockReads(p.op, c) < 2 => d1 = 0
       /\ ticks + d1 + d2 <= m.maxTicks
       /\ t[3] <= MaxNow
       /\ (p.op = "login" /\ r.status = 200) =>
             \/ r.refreshToken \in issued \cup AwaitedRefresh
             \/ Cardinality(IssuedRefresh \cup AwaitedRefresh) < MaxSessions
       /\ tokens' = c.r.store
       /\ now' = t[3]
       /\ ticks' = ticks + d1 + d2
       /\ pending' = IF c.replied
                     THEN rest
                     ELSE rest (+) SetToBag({[p EXCEPT !.stage = "awaiting",
                                                       !.pre = tokens, !.at = t,
                                                       !.svc = c.r]})
       /\ revoked' = IF p.op = "logout" /\ ~c.replied /\ c.r.err = "none"
                        /\ p.body.refreshToken \in IssuedRefresh
                     THEN revoked \cup {p.body.refreshToken}
                     ELSE revoked
       /\ last' = Record(m, [Http(p.op, p.body, r, t) EXCEPT !.auth = p.auth, !.vt = p.vt])
       /\ UNCHANGED issued

\* POST /auth/login, POST /auth/refresh: the request arrives and its handler
\* is called
PublicRoute(m, op, body, d1, d2) ==
    /\ BagCardinality(pending) < m.cap
    /\ CallHandler(m, Request(op, UndefinedTok, body), pending, d1, d2)

\* POST /auth/logout, GET /auth/me: the request arrives and the preHandler
\* app.authenticate runs up to its await request.jwtVerify()
ProtectedRoute(m, op, auth, body) ==
    /\ BagCardinality(pending) < m.cap
    /\ pending' = pending (+) SetToBag({[Request(op, auth, body) EXCEPT
                                            !.stage = "verifying", !.vt = now]})
    /\ last' = Record(m, NoLast)
    /\ UNCHANGED <<tokens, now, ticks, issued, revoked>>

\* the continuation of app.authenticate: it returns, or its catch block
\* sends the 401 and the handler is not called
PreHandler(m, p) ==
    LET r == IF p.op = "logout"
             THEN routeLogout(tokens, p.auth, p.body, p.vt)
             ELSE routeMe(tokens, p.auth, p.vt)
    IN /\ p.stage = "verifying"
       /\ IF r.handler
          THEN /\ pending' = Replaced(p, [p EXCEPT !.stage = "handler"])
               /\ last' = Record(m, NoLast)
          ELSE /\ pending' = Without(p)
               /\ last' = Record(m, [Http(p.op, p.body, r, At(p.vt)) EXCEPT
                                        !.auth = p.auth, !.vt = p.vt])
       /\ UNCHANGED <<tokens, now, ticks, issued, revoked>>

\* the handler of a protected route is called after the hook has returned
Handler(m, p) ==
    /\ p.stage = "handler"
    /\ CallHandler(m, p, Without(p), 0, 0)

\* the handler's continuation after the await: the reply goes out, and the
\* client learns the tokens of a login
Resume(m, p) ==
    LET r == afterAwait(p.op, p.svc)
    IN /\ p.stage = "awaiting"
       /\ pending' = Without(p)
       /\ issued' = IF p.op = "login" /\ r.status = 200
                    THEN issued \cup {r.accessToken, r.refreshToken}
                    ELSE issued
       /\ last' = Record(m, NoLast)
       /\ UNCHANGED <<tokens, now, ticks, revoked>>

\* the clock advances between two steps
Tick(m, d) ==
    /\ ticks < m.maxTicks
    /\ now + d <= MaxNow
    /\ now' = now + d
    /\ ticks' = ticks + 1
    /\ last' = Record(m, NoLast)
    /\ UNCHANGED <<tokens, issued, revoked, pending>>

\* the requests of a client that waits for the reply before it sends the
\* next request; the clock advances between the steps of a request and
\* between the clock readings of a call.  The bodies of login and refresh
\* are of every kind, and the client logs out and asks for the current user
\* with tokens that a login gave it.
SpecMode == Mode(1, MaxTicks, TRUE, Drifts)

Next ==
    \/ \E body \in LoginBodies, d1, d2 \in Drifts :
          PublicRoute(SpecMode, "login", body, d1, d2)
    \/ \E body \in TokenBodies, d1, d2 \in Drifts :
          PublicRoute(SpecMode, "refresh", body, d1, d2)
    \/ \E x \in ConcLogouts : ProtectedRoute(SpecMode, "logout", x[1], x[2])
    \/ \E auth \in IssuedAccess : ProtectedRoute(SpecMode, "me", auth, NoBody)
    \/ \E p \in BagToSet(pending) : PreHandler(SpecMode, p)
    \/ \E p \in BagToSet(pending) : Handler(SpecMode, p)
    \/ \E p \in BagToSet(pending) : Resume(SpecMode, p)
    \/ \E d \in Deltas : Tick(SpecMode, d)

Spec == Init /\ [][Next]_vars

\* the same client on the protected routes: it logs in with the valid
\* credentials and refreshes with the tokens it was given, and its logout
\* and current-user requests carry headers and bodies of every kind
GuardMode == Mode(1, MaxTicks, TRUE, {0})

GuardNext ==
    \/ \E body \in ConcLoginBodies : PublicRoute(GuardMode, "login", body, 0, 0)
    \/ \E k \in IssuedRefresh : PublicRoute(GuardMode, "refresh", TokenBody(k), 0, 0)
    \/ \E auth \in AuthHeaders, body \in TokenBodies :
          ProtectedRoute(GuardMode, "logout", auth, body)
    \/ \E auth \in AuthHeaders : ProtectedRoute(GuardMode, "me", auth, NoBody)
    \/ \E p \in BagToSet(pending) : PreHandler(GuardMode, p)
    \/ \E p \in BagToSet(pending) : Handler(GuardMode, p)
    \/ \E p \in BagToSet(pending) : Resume(GuardMode, p)
    \/ \E d \in Deltas : Tick(GuardMode, d)

GuardSpec == Init /\ [][GuardNext]_vars

\* the clock inside the calls: the service starts on a full second or in the
\* last millisecond of one, the client logs in and refreshes, and a second
\* may end between two clock readings of one call
ClockMode == Mode(1, MaxTicks, TRUE, Drifts)

ClockInit == InitAt(ClockStartTimes)

\* the bodies of the login requests: the valid and a wrong credential
ClockLoginBodies ==
    {b \in LoginBodies : b.present /\ b.username = "admin"
                            /\ b.password \in {"Admin@123", "wrong"}}

ClockNext ==
    \/ \E body \in ClockLoginBodies, d1, d2 \in Drifts :
          PublicRoute(ClockMode, "login", body, d1, d2)
    \/ \E k \in IssuedRefresh \cup {Str("nonexistent-token")}, d1, d2 \in Drifts :
          PublicRoute(ClockMode, "refresh", TokenBody(k), d1, d2)
    \/ \E p \in BagToSet(pending) : Resume(ClockMode, p)
    \/ \E d \in Deltas : Tick(ClockMode, d)

ClockSpec == ClockInit /\ [][ClockNext]_vars

-----------------------------------------------------------------------------
(* The TokenStore driven directly through its public methods *)

StoreCall(op, token, username, ttl) ==
    [NoLast EXCEPT !.op = op, !.rt = token, !.username = username,
                   !.ttl = ttl, !.pre = tokens]

StoreSave(token, username, ttl) ==
    /\ tokens' = saveToken(tokens, token, username, ttl, now)
    /\ last' = StoreCall("saveToken", token, username, ttl)
    /\ UNCHANGED <<now, ticks, issued, revoked, pending>>

StoreVerify(token) ==
    LET v == verifyToken(tokens, token, now)
    IN /\ tokens' = v.store
       /\ last' = [StoreCall("verifyToken", token, Undefined, 0) EXCEPT !.ret = v.ret]
       /\ UNCHANGED <<now, ticks, issued, revoked, pending>>

StoreRevoke(token) ==
    /\ tokens' = revokeToken(tokens, token)
    /\ last' = StoreCall("revokeToken", token, Undefined, 0)
    /\ UNCHANGED <<now, ticks, issued, revoked, pending>>

StoreRevokeAll(username) ==
    /\ tokens' = revokeAllUserTokens(tokens, username)
    /\ last' = StoreCall("revokeAllUserTokens", UndefinedTok, username, 0)
    /\ UNCHANGED <<now, ticks, issued, revoked, pending>>

StoreCleanup ==
    LET c == cleanupExpired(tokens, now)
    IN /\ tokens' = c.store
       /\ last' = [StoreCall("cleanupExpired", UndefinedTok, Undefined, 0)
                      EXCEPT !.count = c.ret]
       /\ UNCHANGED <<now, ticks, issued, revoked, pending>>

StoreTick(d) ==
    /\ ticks < MaxStoreTicks
    /\ now + d <= MaxNow
    /\ now' = now + d
    /\ ticks' = ticks + 1
    /\ last' = [NoLast EXCEPT !.op = "tick"]
    /\ UNCHANGED <<tokens, issued, revoked, pending>>

StoreNext ==
    \/ \E k \in StoreTokens, u \in Owners, ttl \in Ttls : StoreSave(k, u, ttl)
    \/ \E k \in StoreTokens : StoreVerify(k)
    \/ \E k \in StoreTokens : StoreRevoke(k)
    \/ \E u \in Owners : StoreRevokeAll(u)
    \/ StoreCleanup
    \/ \E d \in StoreDeltas : StoreTick(d)

StoreSpec == Init /\ [][StoreNext]_vars

-----------------------------------------------------------------------------
(* Concurrent requests: the steps of several requests interleave, and the  *)
(* clock jumps past the refresh token's lifetime                           *)

ConcMode == Mode(MaxInflight, MaxConcTicks, FALSE, {0})

ConcNext ==
    \/ \E body \in ConcLoginBodies : PublicRoute(ConcMode, "login", body, 0, 0)
    \/ \E body \in ConcTokenBodies : PublicRoute(ConcMode, "refresh", body, 0, 0)
    \/ \E x \in ConcLogouts : ProtectedRoute(ConcMode, "logout", x[1], x[2])
    \/ \E p \in BagToSet(pending) : PreHandler(ConcMode, p)
    \/ \E p \in BagToSet(pending) : Handler(ConcMode, p)
    \/ \E p \in BagToSet(pending) : Resume(ConcMode, p)
    \/ \E d \in ConcDeltas : Tick(ConcMode, d)

ConcSpec == Init /\ [][ConcNext]_vars

-----------------------------------------------------------------------------
(* Calls in the event loop: each call of a TokenStore or AuthService       *)
(* method runs statement by statement, one Map access or clock reading per *)
(* step, and the calls of several requests wait for the thread together    *)

\* the statement at which a call hands the thread back before it has
\* returned, had verifyToken awaited the deletion of an expired record, as
\* a store behind a network client does
Yields_awaitsDelete(c) == c.pc = "delete"

\* the statement at which a call hands the thread back before it has
\* returned: none, the methods of TokenStore are synchronous and the async
\* methods of AuthService contain no await
Yields(c) == FALSE

NoRecord == [token |-> UndefinedTok, username |-> Undefined, issuedAt |-> 0, expiresAt |-> 0]

\* what a call returns or throws: val is the returned string or null, count
\* the returned number, err the message of the error thrown
NoRet == [val |-> Undefined, count |-> 0, err |-> "none", accessToken |-> UndefinedTok,
          refreshToken |-> UndefinedTok, tokenType |-> Undefined]

\* a call with its arguments, its position pc, its locals (stored, sub,
\* accessToken, the loop position i, cleaned), the clock readings it took
\* (at) and what it returned
Call(op, token, username, ttl, payload) ==
    [op |-> op, token |-> token, username |-> username, ttl |-> ttl, payload |-> payload,
     pc |-> "start", stored |-> NoRecord, sub |-> Undefined, accessToken |-> UndefinedTok,
     i |-> 0, cleaned |-> 0, at |-> At(0), ret |-> NoRet]

\* the call goes on at pc / the call has returned or thrown
Cont(c, s) == [call |-> c, store |-> s, done |-> FALSE]
Done(c, s) == [call |-> [c EXCEPT !.pc = "done"], store |-> s, done |-> TRUE]

\* one statement of saveToken on the store s with the clock at t
saveTokenStep(c, s, t) ==
    Done([c EXCEPT !.at = At(t)],
         MapSet(s, c.token, [token |-> c.token, username |-> c.username,
                             issuedAt |-> t, expiresAt |-> t + c.ttl * MsPerSec]))

\* one statement of verifyToken: the lookup, the expiry check, the deletion
verifyTokenStep(c, s, t) ==
    CASE c.pc = "start" ->
            IF ~MapHas(s, c.token)
            THEN Done([c EXCEPT !.ret.val = Null], s)
            ELSE Cont([c EXCEPT !.pc = "check", !.stored = MapGet(s, c.token)], s)
      [] c.pc = "check" ->
            IF t > c.stored.expiresAt
            THEN Cont([c EXCEPT !.pc = "delete", !.at = At(t)], s)
            ELSE Done([c EXCEPT !.at = At(t), !.ret.val = c.stored.username], s)
      [] OTHER -> Done([c EXCEPT !.ret.val = Null], MapDelete(s, c.token))

revokeTokenStep(c, s) == Done(c, MapDelete(s, c.token))

\* one statement of revokeAllUserTokens: the loop's next entry
revokeAllUserTokensStep(c, s) ==
    CASE c.pc = "start" -> Cont([c EXCEPT !.pc = "loop", !.i = 1], s)
      [] OTHER ->
            IF c.i > Len(s) THEN Done(c, s)
            ELSE IF s[c.i].username = c.username
                 THEN Cont(c, MapDelete(s, s[c.i].token))
                 ELSE Cont([c EXCEPT !.i = c.i + 1], s)

\* one statement of cleanupExpired: the clock reading, the loop's next entry
cleanupExpiredStep(c, s, t) ==
    CASE c.pc = "start" -> Cont([c EXCEPT !.pc = "loop", !.i = 1, !.at = At(t)], s)
      [] OTHER ->
            IF c.i > Len(s) THEN Done([c EXCEPT !.ret.count = c.cleaned], s)
            ELSE IF c.at[1] > s[c.i].expiresAt
                 THEN Cont([c EXCEPT !.cleaned = c.cleaned + 1], MapDelete(s, s[c.i].token))
                 ELSE Cont([c EXCEPT !.i = c.i + 1], s)

\* one statement of AuthService.login: the credential check with the first
\* app.jwt.sign, the second app.jwt.sign, saveToken
loginStep(c, s, t) ==
    CASE c.pc = "start" ->
            IF ~c.payload.present
            THEN Done([c EXCEPT !.ret.err = "TypeError"], s)
            ELSE IF c.payload.username # "admin" \/ c.payload.password # "Admin@123"
                 THEN Done([c EXCEPT !.ret.err = "Invalid credentials"], s)
                 ELSE Cont([c EXCEPT !.pc = "signRefresh", !.at = At(t),
                                     !.accessToken =
                                         jwtSign(c.payload.username, AccessTtlSec, t)], s)
      [] c.pc = "signRefresh" ->
            Cont([c EXCEPT !.pc = "save", !.at[2] = t, !.at[3] = t,
                           !.token = jwtSign(c.payload.username, RefreshTtlSec, t)], s)
      [] OTHER ->
            LET saved == saveTokenStep([c EXCEPT !.username = c.payload.username,
                                                 !.ttl = 7 * 24 * 60 * 60], s, t)
            IN Done([c EXCEPT !.at[3] = t,
                              !.ret.accessToken = c.accessToken,
                              !.ret.refreshToken = c.token,
                              !.ret.tokenType = "Bearer"], saved.store)

\* one statement of AuthService.refresh: those of verifyToken, then
\* app.jwt.verify, then app.jwt.sign
refreshStep(c, s, t) ==
    CASE c.pc \in {"start", "check", "delete"} ->
            LET v == verifyTokenStep(c, s, t)
            IN IF ~v.done THEN v
               ELSE IF Falsy(v.call.ret.val)
                    THEN Done([v.call EXCEPT
                                  !.ret = [NoRet EXCEPT
                                              !.err = "Refresh token is invalid or revoked"]],
                              v.store)
                    ELSE Cont([v.call EXCEPT !.pc = "jwtVerify", !.ret = NoRet], v.store)
      [] c.pc = "jwtVerify" ->
            LET decoded == jwtVerify(c.token, t)
            IN IF ~decoded.ok
               THEN Done([c EXCEPT !.at[2] = t, !.at[3] = t, !.ret.err = decoded.err], s)
               ELSE Cont([c EXCEPT !.pc = "sign", !.at[2] = t, !.at[3] = t,
                                   !.sub = decoded.sub], s)
      [] OTHER ->
            Done([c EXCEPT !.at[3] = t,
                           !.ret.accessToken = jwtSign(c.sub, AccessTtlSec, t),
                           !.ret.refreshToken = c.token,
                           !.ret.tokenType = "Bearer"], s)

\* AuthService.logout: its one statement is revokeToken
logoutStep(c, s) == revokeTokenStep(c, s)

\* the next statement of the call c
CallStep(c, s, t) ==
    CASE c.op = "saveToken" -> saveTokenStep(c, s, t)
      [] c.op = "verifyToken" -> verifyTokenStep(c, s, t)
      [] c.op = "revokeToken" -> revokeTokenStep(c, s)
      [] c.op = "revokeAllUserTokens" -> revokeAllUserTokensStep(c, s)
      [] c.op = "cleanupExpired" -> cleanupExpiredStep(c, s, t)
      [] c.op = "login" -> loginStep(c, s, t)
      [] c.op = "refresh" -> refreshStep(c, s, t)
      [] OTHER -> logoutStep(c, s)

\* the calls that hold the thread: begun, not returned, not at an await
OnStack == {p \in BagToSet(pending) : p.pc # "start" /\ ~Yields(p)}

\* the calls that requests make
AtomTokens == {Str("t1")}
AtomLoginBodies ==
    {b \in LoginBodies : b.present /\ b.username = "admin"
                           /\ b.password \in {"Admin@123", "wrong"}}
AtomCalls ==
    {Call("saveToken", k, u, ttl, NoBody) : k \in AtomTokens, u \in Owners, ttl \in Ttls}
    \cup {Call(op, k, Undefined, 0, NoBody) :
            op \in {"verifyToken", "revokeToken", "refresh", "logout"},
            k \in AtomTokens \cup {tokens[i].token : i \in 1..Len(tokens)}}
    \cup {Call("revokeAllUserTokens", UndefinedTok, u, 0, NoBody) : u \in Owners}
    \cup {Call("cleanupExpired", UndefinedTok, Undefined, 0, NoBody)}
    \cup {Call("login", UndefinedTok, Undefined, 0, b) : b \in AtomLoginBodies}

\* the last call that returned (call), how many have returned (n) and the
\* store that the calls returned before it leave when each runs alone, in
\* the order of their return (pre)
NoCalls == [op |-> "init", n |-> 0, pre |-> <<>>,
            call |-> Call("init", UndefinedTok, Undefined, 0, NoBody)]

\* the call c run alone on the store s with the clock readings c took
Alone(c, s) ==
    CASE c.op = "saveToken" ->
            [ret |-> NoRet, store |-> saveToken(s, c.token, c.username, c.ttl, c.at[1])]
      [] c.op = "verifyToken" ->
            [ret |-> [NoRet EXCEPT !.val = verifyToken(s, c.token, c.at[1]).ret],
             store |-> verifyToken(s, c.token, c.at[1]).store]
      [] c.op = "revokeToken" -> [ret |-> NoRet, store |-> revokeToken(s, c.token)]
      [] c.op = "revokeAllUserTokens" ->
            [ret |-> NoRet, store |-> revokeAllUserTokens(s, c.username)]
      [] c.op = "cleanupExpired" ->
            [ret |-> [NoRet EXCEPT !.count = cleanupExpired(s, c.at[1]).ret],
             store |-> cleanupExpired(s, c.at[1]).store]
      [] c.op = "login" ->
            LET r == login(s, c.payload, c.at)
            IN [ret |-> [NoRet EXCEPT !.err = r.err, !.accessToken = r.accessToken,
                                      !.refreshToken = r.refreshToken,
                                      !.tokenType = r.tokenType],
                store |-> r.store]
      [] c.op = "refresh" ->
            LET r == refresh(s, c.token, c.at)
            IN [ret |-> [NoRet EXCEPT !.err = r.err, !.accessToken = r.accessToken,
                                      !.refreshToken = r.refreshToken,
                                      !.tokenType = r.tokenType],
                store |-> r.store]
      [] c.op = "logout" ->
            [ret |-> [NoRet EXCEPT !.err = logout(s, c.token).err],
             store |-> logout(s, c.token).store]
      [] OTHER -> [ret |-> NoRet, store |-> s]

\* the store that the calls returned so far leave when each runs alone
InOrder == Alone(last.call, last.pre).store

AtomInit ==
    /\ tokens = <<>>
    /\ now \in StartTimes
    /\ ticks = 0
    /\ issued = {}
    /\ revoked = {}
    /\ last = NoCalls
    /\ pending = EmptyBag

\* a request's call is ready to run
CallArrive(c) ==
    /\ last.n + BagCardinality(pending) < MaxCalls
    /\ pending' = pending (+) SetToBag({c})
    /\ UNCHANGED <<tokens, now, ticks, issued, revoked, last>>

\* the thread runs the next statement of a call: of the call that holds
\* it, or of any waiting call when none does
CallRun(p) ==
    /\ OnStack = {} \/ p \in OnStack
    /\ LET r == CallStep(p, tokens, now)
       IN /\ tokens' = r.store
          /\ IF r.done
             THEN /\ pending' = Without(p)
                  /\ last' = [op |-> p.op, n |-> last.n + 1, pre |-> InOrder,
                              call |-> r.call]
             ELSE /\ pending' = Replaced(p, r.call)
                  /\ last' = last
    /\ UNCHANGED <<now, ticks, issued, revoked>>

\* the clock moves on, between two statements too
CallTick(d) ==
    /\ ticks < MaxCallTicks
    /\ now + d <= MaxNow
    /\ now' = now + d
    /\ ticks' = ticks + 1
    /\ UNCHANGED <<tokens, issued, revoked, last, pending>>

AtomNext ==
    \/ \E c \in AtomCalls : CallArrive(c)
    \/ \E p \in BagToSet(pending) : CallRun(p)
    \/ \E d \in StoreDeltas : CallTick(d)

AtomSpec == AtomInit /\ [][AtomNext]_vars

-----------------------------------------------------------------------------
(* The replies of one request: every reply.send(...) that the preHandler,  *)
(* the handler and its continuation execute is appended to the request's   *)
(* replies, and the request ends when its last step has run                *)

\* the bodies of the login requests: none, the valid and a wrong credential
LiveLoginBodies ==
    {b \in LoginBodies : ~b.present \/ (b.username = "admin" /\ b.password # Undefined)}

\* a request that has arrived and has sent nothing yet
LiveRequest(op, auth, body) ==
    [op |-> op, auth |-> auth, body |-> body,
     stage |-> IF op \in {"logout", "me"} THEN "preHandler" ELSE "handler",
     vt |-> 0, replies |-> <<>>, svc |-> NotCalled(<<>>)]

\* the preHandler hook, had the handler been called after its 401 as well
afterPreHandler_callsHandler(replies) == "handler"

\* after the preHandler hook: the route handler is not called once the hook
\* has sent the reply
afterPreHandler(replies) == IF Len(replies) > 0 THEN "done" ELSE "handler"

\* the request is over: its replies are on record
Finish(p, replies) ==
    /\ pending' = Without(p)
    /\ last' = [NoLast EXCEPT !.op = p.op, !.handler = (p.stage \notin {"preHandler", "verifying"}),
                              !.count = Len(replies),
                              !.status = IF Len(replies) > 0 THEN replies[1] ELSE 0]

LiveArrive(op, auth, body) ==
    /\ BagCardinality(pending) < MaxLiveInflight
    /\ pending' = pending (+) SetToBag({LiveRequest(op, auth, body)})
    /\ UNCHANGED <<tokens, now, ticks, issued, revoked, last>>

\* app.authenticate up to its await: request.jwtVerify() is called
LivePreHandler(p) ==
    /\ p.stage = "preHandler"
    /\ pending' = Replaced(p, [p EXCEPT !.stage = "verifying", !.vt = now])
    /\ UNCHANGED <<tokens, now, ticks, issued, revoked, last>>

\* the continuation of app.authenticate: it returns, or its catch block
\* runs reply.code(401).send(...)
LiveVerified(p) ==
    LET replies == IF authenticate(p.auth, p.vt)
                   THEN p.replies
                   ELSE Append(p.replies, Unauthorized(tokens).status)
    IN /\ p.stage = "verifying"
       /\ IF afterPreHandler(replies) = "done"
          THEN Finish(p, replies)
          ELSE /\ pending' = Replaced(p, [p EXCEPT !.stage = "handler",
                                                   !.replies = replies])
               /\ UNCHANGED last
       /\ UNCHANGED <<tokens, now, ticks, issued, revoked>>

\* the handler up to its await: it has sent its reply and returned, or it
\* waits for the service call it made
LiveHandler(p) ==
    LET c == handlerChunk(p.op, tokens, p.body, At(now))
    IN /\ p.stage = "handler"
       /\ tokens' = c.r.store
       /\ IF c.replied
          THEN Finish(p, Append(p.replies, c.r.status))
          ELSE /\ pending' = Replaced(p, [p EXCEPT !.stage = "awaiting", !.svc = c.r])
               /\ UNCHANGED last
       /\ revoked' = IF p.op = "logout" /\ ~c.replied /\ c.r.err = "none"
                        /\ p.body.refreshToken \in IssuedRefresh
                     THEN revoked \cup {p.body.refreshToken}
                     ELSE revoked
       /\ UNCHANGED <<now, ticks, issued>>

\* the continuation after the await: reply.send(...) in the try block or in
\* the catch block, and the handler returns
LiveResume(p) ==
    LET r == afterAwait(p.op, p.svc)
    IN /\ p.stage = "awaiting"
       /\ Finish(p, Append(p.replies, r.status))
       /\ issued' = IF p.op = "login" /\ r.status = 200
                    THEN issued \cup {r.accessToken, r.refreshToken}
                    ELSE issued
       /\ UNCHANGED <<tokens, now, ticks, revoked>>

\* one step of a request that is in flight
LiveStep ==
    \E p \in BagToSet(pending) :
        LivePreHandler(p) \/ LiveVerified(p) \/ LiveHandler(p) \/ LiveResume(p)

LiveNext ==
    \/ \E body \in LiveLoginBodies : LiveArrive("login", UndefinedTok, body)
    \/ \E body \in TokenBodies : LiveArrive("refresh", UndefinedTok, body)
    \/ \E auth \in AuthHeaders, body \in TokenBodies : LiveArrive("logout", auth, body)
    \/ \E auth \in AuthHeaders : LiveArrive("me", auth, NoBody)
    \/ LiveStep

\* the event loop runs every continuation that is ready
LiveSpec == Init /\ [][LiveNext]_vars /\ WF_vars(LiveStep)

-----------------------------------------------------------------------------
(* Route matching: a string is the sequence of its characters *)

PUBLIC_ROUTES ==
    << <<"/", "h", "e", "a", "l", "t", "h">>,
       <<"/", "a", "u", "t", "h", "/", "l", "o", "g", "i", "n">>,
       <<"/", "a", "u", "t", "h", "/", "r", "e", "f", "r", "e", "s", "h">> >>

\* String.prototype.startsWith
startsWith(str, prefix) ==
    /\ Len(str) >= Len(prefix)
    /\ SubSeq(str, 1, Len(prefix)) = prefix

\* isPublicRoute, had it matched every path that begins with a route
isPublicRoute_anyPrefix(pathname) ==
    \E i \in 1..Len(PUBLIC_ROUTES) :
        \/ pathname = PUBLIC_ROUTES[i]
        \/ startsWith(pathname, PUBLIC_ROUTES[i])

\* PUBLIC_ROUTES.some(route => pathname === route
\*                             || pathname.startsWith(route + '/'))
isPublicRoute(pathname) ==
    \E i \in 1..Len(PUBLIC_ROUTES) :
        \/ pathname = PUBLIC_ROUTES[i]
        \/ startsWith(pathname, PUBLIC_ROUTES[i] \o <<"/">>)

\* the paths asked about: the routes of the application and their variants
\* in case and length, cut at any point, with up to MaxAffixLen characters
\* before and after
RoutePaths ==
    { <<"/", "h", "e", "a", "l", "t", "h">>, <<"/", "a", "u", "t", "h", "/", "l", "o", "g", "i", "n">>, <<"/", "a", "u", "t", "h", "/", "r", "e", "f", "r", "e", "s", "h">>,
      <<"/", "a", "u", "t", "h", "/", "m", "e">>, <<"/", "a", "u", "t", "h", "/", "l", "o", "g", "o", "u", "t">>, <<"/", "a", "u", "t", "h", "/", "l", "o", "g", "i", "n", "b", "a", "r">>,
      <<"/", "H", "E", "A", "L", "T", "H">>, <<"/", "A", "u", "t", "h", "/", "L", "o", "g", "i", "n">>, <<"/", "a", "u", "t", "h">> }
PathChars == {"/", "x"}
Affixes == UNION {[1..n -> PathChars] : n \in 0..MaxAffixLen}
Pathnames ==
    UNION {{a \o SubSeq(r, 1, n) \o b : a \in {x \in Affixes : Len(x) <= 1},
                                      b \in Affixes, n \in 0..Len(r)} :
           r \in RoutePaths}

\* a caller holds a pathname
RouteInit ==
    /\ tokens = <<>>
    /\ now \in StartTimes
    /\ ticks = 0
    /\ issued = {}
    /\ revoked = {}
    /\ pending = EmptyBag
    /\ \E pathname \in Pathnames :
          last = [op |-> "pathname", pathname |-> pathname, ret |-> Null]

\* the caller asks isPublicRoute(pathname)
CallIsPublicRoute ==
    /\ last.op = "pathname"
    /\ last' = [last EXCEPT !.op = "isPublicRoute", !.ret = isPublicRoute(last.pathname)]
    /\ UNCHANGED <<tokens, now, ticks, issued, revoked, pending>>

RouteNext == CallIsPublicRoute

RouteSpec == RouteInit /\ [][RouteNext]_vars

-----------------------------------------------------------------------------
(* Properties *)

\* the last step was a call of the route handler with a non-empty refresh token
Handled(op) ==
    last.op = op /\ last.handler /\ last.present /\ ~FalsyTok(last.rt)

\* token k has a record in store s that has not expired at time t
ValidIn(s, k, t) == MapHas(s, k) /\ t <= MapGet(s, k).expiresAt

\* C1: once Logout(R) has completed for a login-issued refresh token R, every
\* later Refresh(R) is rejected and yields no access token.
C1_RevokedNeverRefreshes ==
    (Handled("refresh") /\ last.rt \in revoked)
        => (last.status = 401 /\ last.accessToken = UndefinedTok)

\* C2: a login with the valid credentials returns an access token, a refresh
\* token and tokenType "Bearer"; the store then holds a record keyed by the
\* returned refresh token and owned by the submitted username, and a refresh
\* with that token at once succeeds.
C2_LoginPersists ==
    (last.op = "login" /\ last.status = 200)
        => /\ last.accessToken.kind = "jwt"
           /\ last.refreshToken.kind = "jwt"
           /\ last.tokenType = "Bearer"
           /\ MapHas(tokens, last.refreshToken)
           /\ Cardinality({i \in 1..Len(tokens) : tokens[i].token = last.refreshToken}) = 1
           /\ MapGet(tokens, last.refreshToken).username = last.username
           /\ ctlRefresh(tokens, TokenBody(last.refreshToken), At(now)).status = 200

C2_Witness ==
    /\ last.op = "login" /\ last.status = 200
    /\ Len(last.pre) > 0
    /\ Len(tokens) = Len(last.pre) + 1

\* C3: a login with a credential pair other than the valid one fails with the
\* credentials error and leaves the store exactly as it was.
C3_FailedLoginKeepsStore ==
    (last.op = "login" /\ last.present /\ last.status # 200)
        => /\ last.err = "Invalid credentials"
           /\ last.status = 401
           /\ tokens = last.pre

C3_Witness ==
    /\ last.op = "login" /\ last.present /\ last.status = 401
    /\ Len(tokens) > 0

\* the login bodies that carry a credential pair other than the valid one
InvalidPairs ==
    {b \in LoginBodies : b.present /\ ~(b.username = "admin" /\ b.password = "Admin@123")}

\* what the caller of the service and the HTTP client observe of a login
LoginOutcome(b) ==
    LET r == ctlLogin(tokens, b, At(now))
    IN <<r.err, r.status, r.message, r.accessToken, r.refreshToken, r.tokenType>>

\* C4: every failed login has the same observable outcome: the same error at
\* the service, the same status code and body at the controller, whichever
\* field was wrong, empty or missing; a request without any body gets the
\* same reply too.
C4_FailedLoginsAlike ==
    /\ last.op = "login"
          => \A b1, b2 \in InvalidPairs : LoginOutcome(b1) = LoginOutcome(b2)
    /\ \A b \in InvalidPairs :
          LET r == ctlLogin(tokens, b, At(now))
              n == ctlLogin(tokens, NoBody, At(now))
          IN /\ r.status = 401 /\ r.message = "Invalid credentials"
             /\ n.status = r.status /\ n.message = r.message
    /\ (last.op = "login" /\ last.status # 200)
          => (last.status = 401 /\ last.message = "Invalid credentials")

C4_Witness ==
    /\ last.op = "login" /\ last.status = 401
    /\ last.username = "admin"
    /\ Len(tokens) > 0

\* C5: a refresh with a token that has no valid record in the store (never
\* issued, revoked, or expired when the store is asked) fails with the token
\* error and issues no access token; when the token has no record at all the
\* store is unchanged.
C5_NoRecordNoRefresh ==
    (Handled("refresh") /\ ~ValidIn(last.pre, last.rt, last.at[1]))
        => /\ last.status = 401
           /\ last.err = "Refresh token is invalid or revoked"
           /\ last.accessToken = UndefinedTok
           /\ (~MapHas(last.pre, last.rt) => tokens = last.pre)

\* a refresh with a revoked token that is rejected while other sessions live
C5_Witness ==
    /\ Handled("refresh") /\ last.status = 401
    /\ last.rt \in revoked
    /\ ~MapHas(last.pre, last.rt)
    /\ Len(tokens) > 0

\* C6: a successful refresh returns the refresh token it was given and
\* leaves the store unchanged; the refresh has used nothing up: a further
\* refresh with the token, the clock reading what it read, succeeds too.
C6_RefreshKeepsStore ==
    (Handled("refresh") /\ last.status = 200)
        => /\ last.refreshToken = last.rt
           /\ tokens = last.pre
           /\ ctlRefresh(tokens, TokenBody(last.rt), last.at).status = 200

\* a successful refresh at a later time than the login that issued the token
C6_Witness ==
    /\ Handled("refresh") /\ last.status = 200
    /\ MapGet(tokens, last.rt).issuedAt < now

\* the access token a login returned together with refresh token k
LoginAccessOf(k) == {a \in IssuedAccess : a.sub = k.sub /\ a.iat = k.iat}

\* C7: the access token returned by a successful refresh with a login-issued
\* refresh token differs from the access token that login returned, whatever
\* the time between the two calls.
C7_RefreshGivesDifferentToken ==
    (Handled("refresh") /\ last.status = 200 /\ last.rt \in IssuedRefresh)
        => last.accessToken \notin LoginAccessOf(last.rt)

\* C8 (as claimed): logout reports success for every token, and for a token
\* that is absent, revoked, never issued or expired it leaves the store
\* unchanged.
C8_LogoutNoOpUnlessValid ==
    Handled("logout")
        => /\ last.status = 200 /\ last.err = "none"
           /\ (~ValidIn(last.pre, last.rt, now) => tokens = last.pre)

\* C8 (amended): logout reports success for every token and never raises a
\* business error; it removes the record keyed by the token and nothing else,
\* so it leaves the store unchanged exactly when the token has no record; an
\* expired record that is still stored is removed.
C8_LogoutAlwaysSucceeds ==
    Handled("logout")
        => /\ last.status = 200 /\ last.err = "none"
           /\ last.message = "Logged out successfully"
           /\ ~MapHas(tokens, last.rt)
           /\ tokens = SelectSeq(last.pre, LAMBDA e : e.token # last.rt)
           /\ (tokens = last.pre <=> ~MapHas(last.pre, last.rt))

\* a logout with an expired token whose record was still stored
C8_Witness ==
    /\ Handled("logout") /\ last.status = 200
    /\ MapHas(last.pre, last.rt)
    /\ now > MapGet(last.pre, last.rt).expiresAt
    /\ Len(tokens) = Len(last.pre) - 1

\* C9: verify(token) right after save(token, owner, ttl) with ttl >= 0
\* returns owner, whatever the store held before.
C9_VerifyAfterSave ==
    (last.op = "saveToken" /\ last.ttl >= 0)
        => /\ verifyToken(tokens, last.rt, now).ret = last.username
           /\ verifyToken(tokens, last.rt, now).store = tokens

\* a save over an expired record of the same key held by another owner
C9_Witness ==
    /\ last.op = "saveToken"
    /\ MapHas(last.pre, last.rt)
    /\ MapGet(last.pre, last.rt).username # last.username
    /\ now > MapGet(last.pre, last.rt).expiresAt

LaterTimes == {now, now + 1, now + RefreshTtlMs}

\* C10: verify(token) after the record's expiresAt has passed returns
\* not-found and deletes the record: a later verify is not-found again and a
\* later sweep does not count the record.
C10_LazyExpiry ==
    (/\ last.op = "verifyToken"
     /\ MapHas(last.pre, last.rt)
     /\ now > MapGet(last.pre, last.rt).expiresAt)
        => /\ last.ret = Null
           /\ ~MapHas(tokens, last.rt)
           /\ tokens = SelectSeq(last.pre, LAMBDA e : e.token # last.rt)
           /\ \A t \in LaterTimes :
                 /\ verifyToken(tokens, last.rt, t).ret = Null
                 /\ cleanupExpired(tokens, t).ret = cleanupExpired(last.pre, t).ret - 1

\* a lazy expiry while another expired record stays for the sweep
C10_Witness ==
    /\ last.op = "verifyToken" /\ last.ret = Null
    /\ MapHas(last.pre, last.rt)
    /\ now > MapGet(last.pre, last.rt).expiresAt
    /\ cleanupExpired(tokens, now).ret >= 1

\* C11: revoke(token) followed by revoke(token) leaves the store that a single
\* revoke(token) leaves, whether or not the token had a record; the call has
\* no failing outcome, and a token without a record leaves the store as it was.
C11_RevokeIdempotent ==
    last.op = "revokeToken"
        => /\ tokens = revokeToken(last.pre, last.rt)
           /\ revokeToken(tokens, last.rt) = tokens
           /\ revokeToken(revokeToken(last.pre, last.rt), last.rt)
                 = revokeToken(last.pre, last.rt)
           /\ ~MapHas(tokens, last.rt)
           /\ (~MapHas(last.pre, last.rt) => tokens = last.pre)

\* a revoke of a token without a record while other records are stored
C11_Witness ==
    /\ last.op = "revokeToken"
    /\ ~MapHas(last.pre, last.rt)
    /\ Len(tokens) >= 2

\* C12: revokeAll(owner) removes every record of the owner, expired or not
\* and adjacent in iteration order or not, and leaves the records of every
\* other owner in place, in order, with their token, issuedAt and expiresAt.
C12_RevokeAllOnlyOwner ==
    last.op = "revokeAllUserTokens"
        => /\ \A i \in 1..Len(tokens) : tokens[i].username # last.username
           /\ tokens = SelectSeq(last.pre, LAMBDA e : e.username # last.username)

\* a revokeAll over two adjacent records of the owner, one of them expired,
\* followed by a record of another owner
C12_Witness ==
    /\ last.op = "revokeAllUserTokens"
    /\ Len(last.pre) = 3
    /\ last.pre[1].username = last.username
    /\ last.pre[2].username = last.username
    /\ last.pre[3].username # last.username
    /\ now > last.pre[1].expiresAt
    /\ now <= last.pre[2].expiresAt
    /\ Len(tokens) = 1

\* C13: sweepExpired removes exactly the records whose expiresAt is earlier
\* than the current time (a record whose expiresAt equals the current time
\* stays) and returns the number of records it removed.
C13_SweepRemovesExpired ==
    last.op = "cleanupExpired"
        => /\ tokens = SelectSeq(last.pre, LAMBDA e : ~(e.expiresAt < now))
           /\ last.count = Len(last.pre) - Len(tokens)
           /\ last.count = Cardinality({i \in 1..Len(last.pre) : last.pre[i].expiresAt < now})

\* a sweep over two adjacent expired records and one that expires just now
C13_Witness ==
    /\ last.op = "cleanupExpired"
    /\ last.count = 2
    /\ Len(last.pre) = 3
    /\ last.pre[1].expiresAt < now
    /\ last.pre[2].expiresAt < now
    /\ last.pre[3].expiresAt = now
    /\ Len(tokens) = 1

\* C14: every stored record has expiresAt later than issuedAt.
C14_ExpiresAfterIssued ==
    \A i \in 1..Len(tokens) : tokens[i].expiresAt > tokens[i].issuedAt

\* C15: a successful login gets a refresh token of its own: the token it
\* returns is not the key of a record that an earlier login still holds, so
\* two logins never share a refresh token or a record.
C15_LoginTokenUnique ==
    (last.op = "login" /\ last.status = 200)
        => ~MapHas(last.pre, last.refreshToken)

\* the status code and body of a reply
Observable(r) == <<r.status, r.message, r.accessToken, r.refreshToken, r.tokenType>>

\* C17: every rejected refresh has the same status code and body, whether
\* the token was never issued, was revoked, has expired in the store, or
\* fails the verification of the JWT itself.
C17_RefreshRejectionsAlike ==
    /\ (Handled("refresh") /\ last.status # 200)
          => /\ last.status = 401
             /\ last.message = "Invalid refresh token"
             /\ last.accessToken = UndefinedTok
             /\ last.refreshToken = UndefinedTok
             /\ last.tokenType = Undefined
    /\ \A k1, k2 \in ClientTokens \ {Str(""), UndefinedTok} :
          LET r1 == ctlRefresh(tokens, TokenBody(k1), At(now))
              r2 == ctlRefresh(tokens, TokenBody(k2), At(now))
          IN (r1.status # 200 /\ r2.status # 200) => Observable(r1) = Observable(r2)

\* a refresh rejected by the verification of the JWT while the store still
\* holds a valid record of the token, in a state where a refresh with a
\* token that was never issued is rejected by the store
C17_Witness ==
    /\ Handled("refresh") /\ last.status = 401
    /\ last.err = "FST_JWT_AUTHORIZATION_TOKEN_EXPIRED"
    /\ ValidIn(tokens, last.rt, now)
    /\ ctlRefresh(tokens, TokenBody(Str("nonexistent-token")), At(now)).err
          = "Refresh token is invalid or revoked"

\* C18: a refresh or logout whose refresh token is absent (no body, no
\* field, or the empty string) is answered 400 "Refresh token is required"
\* without a call of the service, the store being left as it was.
C18_MissingTokenIs400 ==
    (/\ last.op \in {"refresh", "logout"}
     /\ last.handler
     /\ (~last.present \/ FalsyTok(last.rt)))
        => /\ last.status = 400
           /\ last.message = "Refresh token is required"
           /\ last.err = "not-called"
           /\ tokens = last.pre

\* C19: on /auth/me and /auth/logout a request whose access token is missing,
\* invalid or expired when the preHandler verifies it is answered 401 and
\* the handler does not run: the store is unchanged and a refresh token
\* carried by the logout keeps its record.
C19_ProtectedRoutesNeedToken ==
    /\ (last.op \in {"me", "logout"} /\ ~jwtVerify(last.auth, last.vt).ok)
          => /\ last.status = 401
             /\ last.message = "Unauthorized - Invalid or missing JWT token"
             /\ ~last.handler
             /\ last.err = "not-called"
             /\ tokens = last.pre
    /\ (last.op \in {"me", "logout"} /\ ~last.handler)
          => (last.status = 401 /\ tokens = last.pre)

\* a logout with an expired access token that carries a refresh token whose
\* record is stored, and stays
C19_Witness ==
    /\ last.op = "logout" /\ last.status = 401
    /\ last.auth \in IssuedAccess
    /\ last.vt > last.auth.exp * MsPerSec
    /\ last.present
    /\ last.rt \in IssuedRefresh
    /\ MapHas(tokens, last.rt)

\* the refresh tokens of the login that returned access token a
\* which have been logged out
LoggedOutWith(a) == {k \in revoked : k.sub = a.sub /\ k.iat = a.iat}

\* C20: logout revokes the refresh token only: an access token a login
\* returned is accepted on /auth/me when it is verified before its expiry,
\* whether or not the refresh token of that login has been logged out, and
\* /auth/me neither calls the service nor changes the store.
C20_AccessTokenOutlivesLogout ==
    /\ (last.op = "me" /\ last.auth \in IssuedAccess /\ last.vt < last.auth.exp * MsPerSec)
          => /\ last.status = 200
             /\ last.handler
    /\ last.op = "me"
          => /\ last.err = "not-called"
             /\ tokens = last.pre
    /\ (Handled("logout") /\ last.status = 200)
          => \A a \in IssuedAccess :
                now < a.exp * MsPerSec => routeMe(tokens, a, now).status = 200

\* /auth/me answered 200 for the access token of a login whose refresh token
\* has been logged out and has no record
C20_Witness ==
    /\ last.op = "me" /\ last.status = 200
    /\ LoggedOutWith(last.auth) # {}
    /\ \A k \in LoggedOutWith(last.auth) : ~MapHas(tokens, k)

\* C16: every call of a TokenStore method or of AuthService.login, refresh
\* or logout, whatever calls of other requests wait or arrive while it
\* runs, returns what it returns when run alone on the store left by the
\* calls that returned before it, and whenever no call is under way the
\* store is the one these calls leave when run one after the other in the
\* order of their return.
C16_CallsAtomic ==
    /\ last.op # "init" => last.call.ret = Alone(last.call, last.pre).ret
    /\ (\A p \in BagToSet(pending) : p.pc = "start") => tokens = InOrder

\* a verifyToken that took three statements, with the clock moving between
\* them, has deleted an expired record and returned null after another call
\* had returned, while a saveToken of the same token waits for the thread
C16_Witness ==
    /\ last.op = "verifyToken"
    /\ last.n >= 2
    /\ last.call.ret.val = Null
    /\ MapHas(last.pre, last.call.token)
    /\ ~MapHas(tokens, last.call.token)
    /\ last.call.at[1] > MapGet(last.pre, last.call.token).issuedAt
    /\ \E p \in BagToSet(pending) :
          p.op = "saveToken" /\ p.token = last.call.token /\ p.pc = "start"

\* C21: an access token, from login or from refresh, expires 900 seconds
\* after its issued-at time, which is the time of its signing in whole
\* seconds; a refresh token expires 604800 seconds after its issued-at time,
\* and its record is stored with the same 7 days, from the time of the save.
C21_TokenLifetimes ==
    /\ (last.op \in {"login", "refresh"} /\ last.status = 200)
          => /\ last.accessToken.iat
                   = (IF last.op = "login" THEN last.at[1] ELSE last.at[3]) \div 1000
             /\ last.accessToken.exp = last.accessToken.iat + 900
             /\ last.refreshToken.exp = last.refreshToken.iat + 604800
    /\ (last.op = "login" /\ last.status = 200)
          => /\ last.refreshToken.iat = last.at[2] \div 1000
             /\ MapGet(tokens, last.refreshToken).issuedAt = last.at[3]
             /\ MapGet(tokens, last.refreshToken).expiresAt = last.at[3] + 604800 * 1000
    /\ \A i \in 1..Len(tokens) :
          tokens[i].expiresAt - tokens[i].issuedAt = 604800 * 1000

\* a login during which a second ends: its refresh token is signed in a later
\* second than its access token
C21_Witness ==
    /\ last.op = "login" /\ last.status = 200
    /\ last.accessToken.iat < last.refreshToken.iat
    /\ MapGet(tokens, last.refreshToken).issuedAt = last.at[3]

\* C22 (as claimed): the access token a login returns expires one hour
\* after it was issued.
C22_AccessTokenOneHour ==
    (last.op = "login" /\ last.status = 200)
        => last.accessToken.exp = last.accessToken.iat + 3600

\* C22 (amended): the access token a login returns expires 15 minutes after
\* it was issued: exp = iat + 900, and /auth/me accepts it when it is
\* verified before that time and rejects it when it is verified once more
\* than 900 seconds have passed.
C22_AccessTokenFifteenMinutes ==
    /\ (last.op = "login" /\ last.status = 200)
          => /\ last.accessToken.exp = last.accessToken.iat + 900
             /\ routeMe(tokens, last.accessToken, now).status = 200
    /\ (last.op = "me" /\ last.auth \in IssuedAccess)
          => /\ last.vt < (last.auth.iat + 900) * 1000 => last.status = 200
             /\ last.vt > (last.auth.iat + 900) * 1000 => last.status = 401

\* /auth/me rejecting a login's access token after 15 minutes and before an
\* hour has passed
C22_Witness ==
    /\ last.op = "me" /\ last.status = 401
    /\ last.auth \in IssuedAccess
    /\ last.vt > (last.auth.iat + 900) * 1000
    /\ last.vt < (last.auth.iat + 3600) * 1000

\* the login bodies in which the username or the password is missing
MissingFields ==
    {b \in LoginBodies : ~b.present \/ b.username = Undefined \/ b.password = Undefined}

\* C23: a login whose username or password is missing is answered 400,
\* not the 401 of invalid credentials.
C23_MissingFieldsIs400 ==
    /\ (last.op = "login" /\ (~last.present \/ last.username = Undefined))
          => last.status = 400
    /\ last.op = "login"
          => \A b \in MissingFields : ctlLogin(last.pre, b, At(now)).status = 400

\* C24 (as claimed): a logout with a valid access token and a non-empty
\* refresh token that has no record in the store (never stored, or revoked
\* already) is answered 400 "Logout failed".
C24_LogoutFailedWhenNotFound ==
    (Handled("logout") /\ ~MapHas(last.pre, last.rt))
        => (last.status = 400 /\ last.message = "Logout failed")

\* C24 (amended): a logout with a valid access token and a non-empty refresh
\* token that has no record in the store is answered 200 "Logged out
\* successfully"; 400 "Logout failed" is the answer to a logout request
\* without a body, and to no other.
C24_LogoutOfUnknownTokenSucceeds ==
    /\ (Handled("logout") /\ ~MapHas(last.pre, last.rt))
          => /\ last.status = 200
             /\ last.message = "Logged out successfully"
             /\ tokens = last.pre
    /\ (last.op = "logout" /\ last.handler)
          => ((last.status = 400 /\ last.message = "Logout failed") <=> ~last.present)

\* a second logout of a refresh token that was logged out before
C24_Witness ==
    /\ Handled("logout")
    /\ last.rt \in revoked
    /\ ~MapHas(last.pre, last.rt)
    /\ last.status = 200

\* C25: a refresh succeeds exactly when the token has a record that is
\* unexpired when the store is asked and the JWT itself verifies after that;
\* when the record is good and the JWT does not verify, the refresh is
\* rejected, no access token is issued and the record stays.
C25_RefreshNeedsRecordAndJwt ==
    Handled("refresh")
        => /\ last.status = 200
                 <=> (ValidIn(last.pre, last.rt, last.at[1])
                        /\ jwtVerify(last.rt, last.at[2]).ok)
           /\ (ValidIn(last.pre, last.rt, last.at[1]) /\ ~jwtVerify(last.rt, last.at[2]).ok)
                 => /\ last.status = 401
                    /\ last.accessToken = UndefinedTok
                    /\ tokens = last.pre
                    /\ MapHas(tokens, last.rt)

\* a refresh whose record is unexpired when the store is asked, while the
\* JWT's exp passes before the JWT is verified
C25_Witness ==
    /\ Handled("refresh")
    /\ ValidIn(last.pre, last.rt, last.at[1])
    /\ jwtVerify(last.rt, last.at[1]).ok
    /\ ~jwtVerify(last.rt, last.at[2]).ok
    /\ last.status = 401
    /\ tokens = last.pre

\* C26: for every stored refresh token, the store accepts it at the current
\* time exactly when its exp claim has not passed.
C26_WindowsCoincide ==
    \A i \in 1..Len(tokens) :
        tokens[i].token.kind = "jwt"
            => (now <= tokens[i].expiresAt <=> now <= tokens[i].token.exp * 1000)

\* C27: a refresh succeeds only when it checks the token, in the store and
\* as a JWT, no later than 7 days after the login stored the token's record,
\* which it leaves as it was; a refresh that asks the store later than that,
\* or verifies the JWT later than 7 days after the second in which the token
\* was signed, is rejected.
C27_SessionLifetimeBounded ==
    /\ (Handled("refresh") /\ last.status = 200)
          => /\ MapGet(tokens, last.rt) = MapGet(last.pre, last.rt)
             /\ last.rt.iat * 1000 <= MapGet(tokens, last.rt).issuedAt
             /\ last.at[1] <= MapGet(tokens, last.rt).issuedAt + 604800 * 1000
             /\ last.at[2] <= MapGet(tokens, last.rt).issuedAt + 604800 * 1000
    /\ (/\ Handled("refresh")
        /\ \/ MapHas(last.pre, last.rt)
              /\ last.at[1] > MapGet(last.pre, last.rt).issuedAt + 604800 * 1000
           \/ last.rt.kind = "jwt"
              /\ last.at[2] > last.rt.iat * 1000 + 999 + 604800 * 1000)
          => (last.status = 401 /\ last.accessToken = UndefinedTok)

\* a successful refresh after the login's access token has expired
C27_Witness ==
    /\ Handled("refresh") /\ last.status = 200
    /\ now - MapGet(tokens, last.rt).issuedAt >= 900 * 1000
    /\ MapGet(tokens, last.rt).expiresAt
          = MapGet(tokens, last.rt).issuedAt + 604800 * 1000

\* C28: login saves the record before its tokens go out: whatever the
\* interleaving of requests, a refresh token that a login has returned, that
\* no logout has revoked and whose exp has not passed has a valid record, and
\* a refresh with it is not rejected by the store.
C28_PersistBeforeDisclose ==
    \A k \in IssuedRefresh :
        (k \notin revoked /\ now <= k.exp * 1000)
            => /\ ValidIn(tokens, k, now)
               /\ refresh(tokens, k, At(now)).err # "Refresh token is invalid or revoked"

\* a client holds an unrevoked, unexpired refresh token while a second login
\* that has saved its record awaits, its tokens not yet sent
C28_Witness ==
    /\ \E k \in IssuedRefresh :
          k \notin revoked /\ now <= k.exp * 1000 /\ ValidIn(tokens, k, now)
    /\ \E p \in BagToSet(pending) :
          /\ p.op = "login" /\ p.stage = "awaiting"
          /\ p.svc.err = "none"
          /\ MapHas(tokens, p.svc.refreshToken)
          /\ now > p.at[3]

\* the keys of store s
Keys(s) == {s[i].token : i \in 1..Len(s)}

\* the current time and the instants at and just after each record's expiry
ExpiryTimes ==
    {now} \cup {tokens[i].expiresAt : i \in 1..Len(tokens)}
          \cup {tokens[i].expiresAt + 1 : i \in 1..Len(tokens)}

\* C29: verify and the sweep apply one expiry test: at the instant expiresAt
\* verify returns the owner and the sweep keeps the record, and at every time
\* the sweep removes exactly the stored tokens that verify reports not-found.
C29_SameExpiryTest ==
    /\ \A t \in ExpiryTimes :
          Keys(tokens) \ Keys(cleanupExpired(tokens, t).store)
             = {k \in Keys(tokens) : verifyToken(tokens, k, t).ret = Null}
    /\ \A i \in 1..Len(tokens) :
          /\ verifyToken(tokens, tokens[i].token, tokens[i].expiresAt).ret
                = tokens[i].username
          /\ MapHas(cleanupExpired(tokens, tokens[i].expiresAt).store, tokens[i].token)
          /\ verifyToken(tokens, tokens[i].token, tokens[i].expiresAt + 1).ret = Null
          /\ ~MapHas(cleanupExpired(tokens, tokens[i].expiresAt + 1).store, tokens[i].token)
    /\ (last.op = "verifyToken" /\ MapHas(last.pre, last.rt))
          => (last.ret = Null <=> ~MapHas(cleanupExpired(last.pre, now).store, last.rt))

\* a verify at the instant of the record's expiresAt that returns the owner,
\* next to an expired record that the sweep would remove
C29_Witness ==
    /\ last.op = "verifyToken"
    /\ MapHas(last.pre, last.rt)
    /\ MapGet(last.pre, last.rt).expiresAt = now
    /\ last.ret = MapGet(last.pre, last.rt).username
    /\ cleanupExpired(tokens, now).ret = 1
    /\ MapHas(cleanupExpired(tokens, now).store, last.rt)

\* the records of store s under keys other than k
Others(s, k) == SelectSeq(s, LAMBDA e : e.token # k)

\* the token on which the last request worked
LastKey == IF last.op = "login" THEN last.refreshToken ELSE last.rt

\* C30: save, verify and revoke of one token leave the records of every
\* other token in place, and so does every request to the login, refresh,
\* logout and me endpoints: an expired record stays in the store as long as
\* its own token is not presented.
C30_NoImplicitCleanup ==
    /\ last.op \in {"login", "refresh", "logout", "me"}
          => Others(tokens, LastKey) = Others(last.pre, LastKey)
    /\ \A k \in Keys(tokens) \cup ClientTokens :
          /\ Others(saveToken(tokens, k, "admin", 7 * 24 * 60 * 60, now), k)
                = Others(tokens, k)
          /\ Others(verifyToken(tokens, k, now).store, k) = Others(tokens, k)
          /\ Others(revokeToken(tokens, k), k) = Others(tokens, k)

\* a successful login that leaves the expired record of an earlier login in
\* the store
C30_Witness ==
    /\ last.op = "login" /\ last.status = 200
    /\ \E i \in 1..Len(tokens) :
          /\ tokens[i].token # last.refreshToken
          /\ now > tokens[i].expiresAt
          /\ \E j \in 1..Len(last.pre) : last.pre[j] = tokens[i]

\* the record that save(token, owner, ttl) writes at the current time
SavedRecord ==
    [token |-> last.rt, username |-> last.username,
     issuedAt |-> now, expiresAt |-> now + last.ttl * MsPerSec]

\* C31: save(token, owner, ttl) on a key that is already present replaces that
\* record entirely (owner, issuedAt = now, expiresAt = now + ttl) in place and
\* leaves the number of records unchanged; on a new key it adds one record;
\* in both cases every record other than the one keyed by token is unchanged.
C31_SaveOverwrites ==
    (last.op = "saveToken") =>
        /\ MapHas(tokens, last.rt)
        /\ MapGet(tokens, last.rt) = SavedRecord
        /\ Others(tokens, last.rt) = Others(last.pre, last.rt)
        /\ IF MapHas(last.pre, last.rt)
           THEN /\ Len(tokens) = Len(last.pre)
                /\ \A i \in 1..Len(tokens) :
                       tokens[i].token = last.rt <=> last.pre[i].token = last.rt
           ELSE Len(tokens) = Len(last.pre) + 1

\* a save over a live record of another owner, issued earlier, with another
\* token's record beside it
C31_Witness ==
    /\ last.op = "saveToken"
    /\ MapHas(last.pre, last.rt)
    /\ Len(last.pre) >= 2
    /\ MapGet(last.pre, last.rt).username # last.username
    /\ MapGet(last.pre, last.rt).issuedAt < now
    /\ now <= MapGet(last.pre, last.rt).expiresAt
    /\ MapGet(last.pre, last.rt).expiresAt # SavedRecord.expiresAt

\* C32: a successful Logout(R1) removes the record of R1 and no other; every
\* other refresh token R2 that has a record keeps it unchanged and, unless it
\* has expired, is still accepted by Refresh right after the logout; and a
\* Refresh(R2) of a login-issued token that has not expired and was not itself
\* logged out succeeds, whichever other tokens were logged out before.
C32_LogoutLeavesOtherSessions ==
    /\ (Handled("logout") /\ last.status = 200)
          => /\ tokens = Others(last.pre, last.rt)
             /\ \A k \in Keys(last.pre) \ {last.rt} :
                   /\ MapHas(tokens, k)
                   /\ MapGet(tokens, k) = MapGet(last.pre, k)
                   /\ (ValidIn(last.pre, k, now) /\ jwtVerify(k, now).ok)
                         => ctlRefresh(tokens, TokenBody(k), At(now)).status = 200
    /\ (Handled("refresh") /\ last.rt \in IssuedRefresh /\ last.rt \notin revoked
          /\ jwtVerify(last.rt, last.at[2]).ok)
          => (last.status = 200 /\ MapHas(tokens, last.rt))

\* Refresh(R2) succeeds after the refresh token R1 of another login was
\* logged out and its record removed
C32_Witness ==
    /\ Handled("refresh")
    /\ last.status = 200
    /\ last.rt \notin revoked
    /\ \E r1 \in revoked : r1 # last.rt /\ ~MapHas(tokens, r1)

\* C33: the access token issued by a successful Refresh(R) has as subject the
\* owner that the store holds for R, the one verifyToken returned, although
\* refresh signs the subject decoded from R; the two are equal because every
\* record's owner is the subject of the token it is keyed by.
C33_RefreshSubjectIsOwner ==
    /\ (Handled("refresh") /\ last.status = 200)
          => /\ MapHas(last.pre, last.rt)
             /\ last.accessToken.kind = "jwt"
             /\ last.accessToken.sub = MapGet(last.pre, last.rt).username
             /\ last.accessToken.sub = verifyToken(last.pre, last.rt, last.at[1]).ret
    /\ \A i \in 1..Len(tokens) : tokens[i].username = tokens[i].token.sub

\* a refresh, in a later second than the login, that returns a new access
\* token for the recorded owner
C33_Witness ==
    /\ Handled("refresh")
    /\ last.status = 200
    /\ MapGet(last.pre, last.rt).username = "admin"
    /\ last.accessToken.sub = "admin"
    /\ last.accessToken.iat > last.rt.iat

\* C34: every key of the store is a refresh token that a successful login
\* returned before, to the client or to the handler that is about to send
\* it, and every record's owner is "admin"; a refresh, a logout, a failed
\* login and a current-user request add no key to the store.
C34_StoreHoldsLoginTokens ==
    /\ \A i \in 1..Len(tokens) :
          /\ tokens[i].token \in IssuedRefresh \cup AwaitedRefresh
          /\ tokens[i].username = "admin"
    /\ (last.op \in {"refresh", "logout", "me"}
           \/ (last.op = "login" /\ last.status # 200))
          => Keys(tokens) \subseteq Keys(last.pre)

\* a successful refresh in a later second than the login, while the store
\* holds the refresh tokens of two logins and nothing else
C34_Witness ==
    /\ Handled("refresh")
    /\ last.status = 200
    /\ last.accessToken \notin Keys(tokens)
    /\ last.accessToken \notin issued
    /\ Len(tokens) = 2
    /\ Keys(tokens) = Keys(last.pre)

\* the requests in flight have reached the number the model admits
LiveFull == BagCardinality(pending) = MaxLiveInflight

\* C35: every login, refresh, logout and current-user request ends with
\* exactly one reply sent, on the success, business-error, client-input-error
\* and authentication-failure paths alike; no request in flight has sent a
\* reply and gone on; and a request in flight is eventually answered.
C35_ExactlyOneReply ==
    /\ [](/\ last.op \in {"login", "refresh", "logout", "me"} => last.count = 1
          /\ \A p \in BagToSet(pending) : p.replies = <<>>)
    /\ (LiveFull ~> ~LiveFull)

\* a logout that the preHandler turned away with its one 401 reply, the
\* handler not called, after a login and a logout have been answered
C35_Witness ==
    /\ last.op = "logout"
    /\ ~last.handler
    /\ last.status = 401
    /\ last.count = 1
    /\ issued # {}
    /\ revoked # {}

\* pathname is route r followed by "/" and anything
BelowRoute(pathname, r) ==
    /\ Len(pathname) > Len(r)
    /\ \A i \in 1..Len(r) : pathname[i] = r[i]
    /\ pathname[Len(r) + 1] = "/"

\* the three public routes as the documentation lists them
PublicRoutesListed ==
    { <<"/", "h", "e", "a", "l", "t", "h">>, <<"/", "a", "u", "t", "h", "/", "l", "o", "g", "i", "n">>, <<"/", "a", "u", "t", "h", "/", "r", "e", "f", "r", "e", "s", "h">> }

\* C36: isPublicRoute(pathname) is true exactly when pathname is one of
\* /health, /auth/login, /auth/refresh or one of them followed by "/" and
\* anything; it is false for /auth/loginbar, /auth/me and /auth/logout, and
\* for /HEALTH, the comparison being case sensitive.
C36_PublicRouteMatch ==
    (last.op = "isPublicRoute") =>
        /\ last.ret \in BOOLEAN
        /\ last.ret <=> \E r \in PublicRoutesListed :
                            last.pathname = r \/ BelowRoute(last.pathname, r)
        /\ last.pathname \in { <<"/", "a", "u", "t", "h", "/", "l", "o", "g", "i", "n", "b", "a", "r">>, <<"/", "a", "u", "t", "h", "/", "m", "e">>, <<"/", "a", "u", "t", "h", "/", "l", "o", "g", "o", "u", "t">>,
                               <<"/", "H", "E", "A", "L", "T", "H">> }
              => last.ret = FALSE

\* a path that begins with a public route and goes on without "/" is not
\* public
C36_Witness ==
    /\ last.op = "isPublicRoute"
    /\ last.pathname = <<"/", "a", "u", "t", "h", "/", "l", "o", "g", "i", "n", "b", "a", "r">>
    /\ last.ret = FALSE

====
